---- MODULE Spec2Model ----
(***************************************************************************)
(* A model of udonarium_fvtt_converter.py: the conversion of a Udonarium   *)
(* character sheet (an XML tree of nested <data name=...> elements) into   *)
(* the record of a Foundry VTT actor, and the command line wrapper around  *)
(* it.                                                                     *)
(*                                                                         *)
(* A Python str is a sequence of atoms.  An atom is one character, or, for *)
(* the Japanese words of the character sheet, one word in romanised form   *)
(* (the module's text is ASCII):                                           *)
(*   "U+3010" "U+3011"  the brackets 【 and 】                              *)
(*   "nouryokuchi" 能力値       "kinryoku" 筋力      "binshouryoku" 敏捷力  *)
(*   "taikyuuryoku" 耐久力      "chiryoku" 知力      "handanryoku" 判断力   *)
(*   "miryoku" 魅力             "koudou_data" 行動データ                    *)
(*   "hit_point" ヒット・ポイント  "hit_dice" ヒット・ダイス                  *)
(*   "zokusei" 属性             "shuzoku" 種族       "slot" スロット        *)
(*   "tokuchou_tou" 特徴等      "toutobu_mono" 尊ぶもの                     *)
(*   "jinkakuteki_tokuchou" 人格的特徴   "kakawari_bukai_mono" 関わり深いもの *)
(*   "yowami" 弱味   "aitemu" アイテム   "kihon" 基本   "ginou" 技能         *)
(*   "saving_throw" セーヴィングスロー                                      *)
(* Python's None is the value None below; a dict is a function on the set  *)
(* of its keys; a list is a sequence.                                      *)
(***************************************************************************)
EXTENDS Integers, Sequences, FiniteSets, TLC

VARIABLES
    xml_string,        \* the argument of xml_to_fvtt_json: the markup, as tokens
    pc,                \* the position of the running code
    root,              \* the parsed tree: its elements in document order
    json_data,         \* the destination record under construction
    todo,              \* the elements a for loop has still to visit
    level_num,         \* the loop variable of the spell level loop
    unconverted_data,  \* the biography lines collected so far
    result,            \* what the last call of xml_to_fvtt_json returned
    log,               \* the records handed to the logger, oldest first
    history,           \* the earlier calls of this process: input and output
    argv,              \* the command line: the input file's suffix and presence
    output_file,       \* the output file: absent, or the record dumped to it
    exit_status        \* the process's exit status, Running until it ends

vars == <<xml_string, pc, root, json_data, todo, level_num, unconverted_data,
          result, log, history, argv, output_file, exit_status>>

---------------------------------------------------------------------------
(* Python values *)

None == <<"<None>">>

\* The str of one atom.
S(a) == <<a>>

\* Python's truth value of a str or None: "if value".
Truthy(v) == v # None /\ v # <<>>

Whitespace == {" ", "\n", "\t"}

RECURSIVE lstrip(_)
lstrip(s) == IF s = <<>> \/ Head(s) \notin Whitespace THEN s ELSE lstrip(Tail(s))

RECURSIVE rstrip(_)
rstrip(s) ==
    IF s = <<>> \/ s[Len(s)] \notin Whitespace THEN s
    ELSE rstrip(SubSeq(s, 1, Len(s) - 1))

\* str.strip()
strip(s) == rstrip(lstrip(s))

Digits == <<"0", "1", "2", "3", "4", "5", "6", "7", "8", "9">>

IsDigit(c) == \E i \in DOMAIN Digits : Digits[i] = c

DigitValue(c) == (CHOOSE i \in DOMAIN Digits : Digits[i] = c) - 1

RECURSIVE DecimalValue(_)
DecimalValue(s) ==
    IF s = <<>> THEN 0
    ELSE 10 * DecimalValue(SubSeq(s, 1, Len(s) - 1)) + DigitValue(s[Len(s)])

\* int(s) of a str s: an optional sign and decimal digits, white space around
\* them allowed; anything else is a ValueError.  (Underscores between digits
\* and non-ASCII digits, which int also takes, are outside the alphabet of the
\* inputs drawn below.)
python_int(s) ==
    LET t == strip(s)
        signed == t # <<>> /\ Head(t) \in {"+", "-"}
        d == IF signed THEN Tail(t) ELSE t
    IN  IF d # <<>> /\ \A i \in DOMAIN d : IsDigit(d[i])
        THEN [raised |-> FALSE,
              value |-> IF signed /\ Head(t) = "-" THEN 0 - DecimalValue(d)
                        ELSE DecimalValue(d)]
        ELSE [raised |-> TRUE, value |-> 0]

\* "sep".join(lines)
RECURSIVE join(_, _)
join(sep, lines) ==
    IF lines = <<>> THEN <<>>
    ELSE IF Len(lines) = 1 THEN lines[1]
    ELSE lines[1] \o sep \o join(sep, Tail(lines))

\* s.replace(old, "") for a one-atom old
replace(s, old) == SelectSeq(s, LAMBDA c : c # old)

\* d.get(key), d.get(key, default) of a dict
DictGet(d, key, default) == IF key \in DOMAIN d THEN d[key] ELSE default

---------------------------------------------------------------------------
(* The markup and its parser *)

\* A start tag with the text that follows it, or an end tag.
Open(tag, attrib, text) == [kind |-> "open", tag |-> tag, attrib |-> attrib, text |-> text]
Close == [kind |-> "close"]

\* The element a start tag makes: element.text is None when no text follows.
Element(tok, parent) ==
    [tag |-> tok.tag, attrib |-> tok.attrib,
     text |-> IF tok.text = <<>> THEN None ELSE tok.text,
     parent |-> parent]

\* etree.fromstring: the elements in document order, each with the index of
\* its parent (0 for the document's root element), or XMLSyntaxError: an end
\* tag with no element open, a second root element, an element left open at
\* the end, no element at all.
RECURSIVE Parse(_, _, _, _)
Parse(toks, i, stack, nodes) ==
    IF i > Len(toks)
    THEN IF stack = <<>> /\ nodes # <<>>
         THEN [raised |-> FALSE, nodes |-> nodes]
         ELSE [raised |-> TRUE, nodes |-> <<>>]
    ELSE IF toks[i].kind = "open"
    THEN IF stack = <<>> /\ nodes # <<>>
         THEN [raised |-> TRUE, nodes |-> <<>>]
         ELSE Parse(toks, i + 1, <<Len(nodes) + 1>> \o stack,
                    Append(nodes, Element(toks[i], IF stack = <<>> THEN 0 ELSE Head(stack))))
    ELSE IF stack = <<>>
         THEN [raised |-> TRUE, nodes |-> <<>>]
         ELSE Parse(toks, i + 1, Tail(stack), nodes)

\* a parser that recovers from missing end tags by closing what is open
fromstring_recover(toks) ==
    LET opens == Cardinality({i \in DOMAIN toks : toks[i].kind = "open"})
        closes == Cardinality({i \in DOMAIN toks : toks[i].kind = "close"})
    IN  Parse(toks \o [j \in 1..(IF opens > closes THEN opens - closes ELSE 0) |-> Close],
              1, <<>>, <<>>)

fromstring(toks) == Parse(toks, 1, <<>>, <<>>)

---------------------------------------------------------------------------
(* ElementPath on the parsed tree.  An element is its index in root; 0 is   *)
(* None.                                                                    *)

\* elem.get(key), elem.get(key, default)
ElemGet(elem, key, default) == DictGet(root[elem].attrib, key, default)

RECURSIVE IsAncestor(_, _)
IsAncestor(a, e) ==
    IF root[e].parent = 0 THEN FALSE
    ELSE root[e].parent = a \/ IsAncestor(a, root[e].parent)

\* The indices of a set, ascending: document order.
RECURSIVE Ascending(_)
Ascending(set) ==
    IF set = {} THEN <<>>
    ELSE LET m == CHOOSE x \in set : \A y \in set : x <= y
         IN  <<m>> \o Ascending(set \ {m})

\* elem.iterdescendants("data"): never elem itself
DescendantData(elem) ==
    Ascending({e \in DOMAIN root : IsAncestor(elem, e) /\ root[e].tag = "data"})

\* elem.iterchildren("data")
ChildData(elem) ==
    Ascending({e \in DOMAIN root : root[e].parent = elem /\ root[e].tag = "data"})

\* the predicate [@name='...']
Named(seq, name) == SelectSeq(seq, LAMBDA e : ElemGet(e, "name", None) = name)

RECURSIVE Flatten(_)
Flatten(seqs) == IF seqs = <<>> THEN <<>> ELSE Head(seqs) \o Flatten(Tail(seqs))

\* elem.findall(".//data")
findall_descendant(elem) == DescendantData(elem)

\* elem.findall(".//data[@name='<name>']")
findall_named(elem, name) == Named(DescendantData(elem), name)

\* elem.findall(".//data[@name='<outer>']/data"): the children of each
\* container, container after container
findall_in(elem, outer) ==
    LET cs == findall_named(elem, outer)
    IN  Flatten([i \in DOMAIN cs |-> ChildData(cs[i])])

\* elem.findall(".//data[@name='<outer>']/data[@name='<inner>']")
findall_nested(elem, outer, inner) == Named(findall_in(elem, outer), inner)

\* elem.find(path): the first element findall gives, or None
First(seq) == IF seq = <<>> THEN 0 ELSE Head(seq)

\* the document's root element
Top == 1

---------------------------------------------------------------------------
(* The helpers of the converter *)

get_text(elem) ==
    IF elem # 0 /\ Truthy(root[elem].text) THEN strip(root[elem].text) ELSE <<>>

get_int_value(elem, attrib_name) ==
    IF elem = 0 THEN 0
    ELSE LET value == IF attrib_name # "text" THEN ElemGet(elem, attrib_name, None)
                      ELSE root[elem].text
         IN  IF Truthy(value)
             THEN IF python_int(strip(value)).raised THEN 0
                  ELSE python_int(strip(value)).value
             ELSE 0

ability_mapping ==
    (S("kinryoku") :> "str") @@ (S("binshouryoku") :> "dex") @@
    (S("taikyuuryoku") :> "con") @@ (S("chiryoku") :> "int") @@
    (S("handanryoku") :> "wis") @@ (S("miryoku") :> "cha")

traits_mapping ==
    (S("toutobu_mono") :> "ideal") @@ (S("jinkakuteki_tokuchou") :> "trait") @@
    (S("kakawari_bukai_mono") :> "bond") @@ (S("yowami") :> "flaw")

skip_names ==
    {S("kihon"), S("nouryokuchi"), S("koudou_data"), S("ginou"), S("saving_throw"),
     S("tokuchou_tou"), S("imageIdentifier"), S("hit_dice"), S("hit_point"),
     S("zokusei"), S("shuzoku"), S("aitemu")}

AbilityKeys == {"str", "dex", "con", "int", "wis", "cha"}

\* range(1, 9) in place of range(1, 10)
LevelsShort == 1..8

Levels == 1..9

\* f"spell{level}"
SpellKey(level) == "spell" \o ToString(level)

\* f"LV{level_num}"
LevelName(level) == <<"LV", ToString(level)>>

\* the record xml_to_fvtt_json starts from
InitialRecord ==
    [name |-> <<>>,
     type |-> "character",
     system |->
        [abilities |-> [key \in AbilityKeys |-> [value |-> 0]],
         attributes |-> [hp |-> [value |-> 0, max |-> 0], hd |-> [value |-> <<>>]],
         details |-> [alignment |-> <<>>, race |-> <<>>, biography |-> [value |-> <<>>]],
         spells |-> [key \in {SpellKey(level) : level \in Levels} |-> [value |-> 0, max |-> 0]]],
     items |-> <<>>]

---------------------------------------------------------------------------
(* xml_to_fvtt_json, statement by statement *)

\* a name of type dict or None that holds None, or is not bound yet
NoRecord == [type |-> "NoneType"]

Running == 0 - 1

SetAbility(data, key, value) ==
    [data EXCEPT !.system.abilities[key].value = value]

\* root = etree.fromstring(xml_string.encode("utf-8"))
ParseMarkup ==
    /\ pc = "call"
    /\ LET parsed == fromstring(xml_string)
       IN  IF parsed.raised
           THEN /\ pc' = "except_XMLSyntaxError"
                /\ root' = root
           ELSE /\ pc' = "init"
                /\ root' = parsed.nodes
    /\ UNCHANGED <<xml_string, json_data, todo, level_num, unconverted_data,
                   result, log, history, argv, output_file, exit_status>>

\* a record whose item list is the one the call before filled
InitRecordKeepingItems ==
    /\ pc = "init"
    /\ json_data' = [InitialRecord EXCEPT
                        !.items = IF result = NoRecord THEN <<>> ELSE result.items]
    /\ pc' = "name"
    /\ UNCHANGED <<xml_string, root, todo, level_num, unconverted_data,
                   result, log, history, argv, output_file, exit_status>>

\* json_data = {...}
InitRecord ==
    /\ pc = "init"
    /\ json_data' = InitialRecord
    /\ pc' = "name"
    /\ UNCHANGED <<xml_string, root, todo, level_num, unconverted_data,
                   result, log, history, argv, output_file, exit_status>>

\* the character's name; then parse_abilities is entered and its findall runs
MapName ==
    /\ pc = "name"
    /\ LET name_elem == First(findall_nested(Top, S("character"), S("name")))
       IN  json_data' = [json_data EXCEPT !.name = get_text(name_elem)]
    /\ todo' = findall_in(Top, S("nouryokuchi"))
    /\ pc' = "parse_abilities"
    /\ UNCHANGED <<xml_string, root, level_num, unconverted_data,
                   result, log, history, argv, output_file, exit_status>>

\* parse_abilities with only the opening bracket taken off the label
AbilityStepOneBracket(data, ability_elem) ==
    LET ability_name_jp == replace(ElemGet(ability_elem, "name", <<>>), "U+3010")
        ability_name_en == DictGet(ability_mapping, ability_name_jp, "")
    IN  IF ability_name_en # ""
        THEN SetAbility(data, ability_name_en, get_int_value(ability_elem, "text"))
        ELSE data

\* what one iteration of parse_abilities's loop makes of json_data
AbilityStep(data, ability_elem) ==
    LET ability_name_jp ==
            replace(replace(ElemGet(ability_elem, "name", <<>>), "U+3010"), "U+3011")
        ability_name_en == DictGet(ability_mapping, ability_name_jp, "")
    IN  IF ability_name_en # ""
        THEN SetAbility(data, ability_name_en, get_int_value(ability_elem, "text"))
        ELSE data

\* parse_abilities: one iteration of its loop, or its end
ParseAbilities ==
    /\ pc = "parse_abilities"
    /\ IF todo = <<>>
       THEN /\ pc' = "hp"
            /\ UNCHANGED <<json_data, todo>>
       ELSE /\ json_data' = AbilityStep(json_data, Head(todo))
            /\ todo' = Tail(todo)
            /\ pc' = pc
    /\ UNCHANGED <<xml_string, root, level_num, unconverted_data,
                   result, log, history, argv, output_file, exit_status>>

\* the two counters taken from each other's place
CounterSwapped(elem) ==
    [value |-> get_int_value(elem, "text"), max |-> get_int_value(elem, "currentValue")]

\* the pair of counters a hit point or slot element gives
Counter(elem) ==
    [value |-> get_int_value(elem, "currentValue"), max |-> get_int_value(elem, "text")]

\* hp_elem and the two assignments under "if hp_elem is not None"
MapHitPoints ==
    /\ pc = "hp"
    /\ LET hp_elem == First(findall_nested(Top, S("koudou_data"), S("hit_point")))
       IN  json_data' = IF hp_elem # 0
                        THEN [json_data EXCEPT !.system.attributes.hp = Counter(hp_elem)]
                        ELSE json_data
    /\ pc' = "hd"
    /\ UNCHANGED <<xml_string, root, todo, level_num, unconverted_data,
                   result, log, history, argv, output_file, exit_status>>

MapHitDice ==
    /\ pc = "hd"
    /\ LET hit_dice_elem == First(findall_named(Top, S("hit_dice")))
       IN  json_data' = [json_data EXCEPT !.system.attributes.hd.value = get_text(hit_dice_elem)]
    /\ pc' = "alignment"
    /\ UNCHANGED <<xml_string, root, todo, level_num, unconverted_data,
                   result, log, history, argv, output_file, exit_status>>

MapAlignment ==
    /\ pc = "alignment"
    /\ LET alignment_elem == First(findall_named(Top, S("zokusei")))
       IN  json_data' = [json_data EXCEPT !.system.details.alignment = get_text(alignment_elem)]
    /\ pc' = "race"
    /\ UNCHANGED <<xml_string, root, todo, level_num, unconverted_data,
                   result, log, history, argv, output_file, exit_status>>

MapRace ==
    /\ pc = "race"
    /\ LET race_elem == First(findall_named(Top, S("shuzoku")))
       IN  json_data' = [json_data EXCEPT !.system.details.race = get_text(race_elem)]
    /\ level_num' = 1
    /\ pc' = "spells"
    /\ UNCHANGED <<xml_string, root, todo, unconverted_data,
                   result, log, history, argv, output_file, exit_status>>

\* what one iteration of the spell level loop makes of json_data
SpellStep(data, level) ==
    LET slot_elem == First(findall_nested(Top, LevelName(level), S("slot")))
    IN  IF slot_elem # 0
        THEN [data EXCEPT !.system.spells[SpellKey(level)] = Counter(slot_elem)]
        ELSE data

\* the children parse_traits loops over
TraitElems ==
    LET traits_elem == First(findall_named(Top, S("tokuchou_tou")))
    IN  IF traits_elem # 0 THEN ChildData(traits_elem) ELSE <<>>

\* for level_num in range(1, 10): one iteration; after the last one
\* parse_traits is entered
MapSpells ==
    /\ pc = "spells"
    /\ json_data' = SpellStep(json_data, level_num)
    /\ IF level_num < 9
       THEN /\ level_num' = level_num + 1
            /\ pc' = pc
            /\ todo' = todo
       ELSE /\ level_num' = level_num
            /\ pc' = "parse_traits"
            /\ todo' = TraitElems
    /\ UNCHANGED <<xml_string, root, unconverted_data,
                   result, log, history, argv, output_file, exit_status>>

\* what one iteration of parse_traits's loop makes of json_data
TraitStep(data, trait_elem) ==
    LET xml_name == ElemGet(trait_elem, "name", None)
        json_name == DictGet(traits_mapping, xml_name, "")
    IN  IF json_name # ""
        THEN [data EXCEPT !.system.details =
                 (json_name :> get_text(trait_elem)) @@ data.system.details]
        ELSE data

\* the children parse_items loops over
ItemElems ==
    LET items_elem == First(findall_named(Top, S("aitemu")))
    IN  IF items_elem # 0 THEN ChildData(items_elem) ELSE <<>>

\* parse_traits: one iteration of its loop, or its end and parse_items's start
ParseTraits ==
    /\ pc = "parse_traits"
    /\ IF todo = <<>>
       THEN /\ pc' = "parse_items"
            /\ todo' = ItemElems
            /\ json_data' = json_data
       ELSE /\ json_data' = TraitStep(json_data, Head(todo))
            /\ todo' = Tail(todo)
            /\ pc' = pc
    /\ UNCHANGED <<xml_string, root, level_num, unconverted_data,
                   result, log, history, argv, output_file, exit_status>>

\* the record parse_items appends for one child
ItemRecord(item_elem) ==
    [name |-> ElemGet(item_elem, "name", None),
     type |-> "item",
     system |-> [description |-> [value |-> get_text(item_elem)]]]

\* json_data["items"].insert(0, ...)
PrependItem(data, item_elem) ==
    [data EXCEPT !.items = <<ItemRecord(item_elem)>> \o @]

\* json_data["items"].append(...)
AppendItem(data, item_elem) ==
    [data EXCEPT !.items = Append(@, ItemRecord(item_elem))]

\* detail_elem.findall("data"): the children only
DetailElemsChildren ==
    LET detail_elem == First(findall_named(Top, S("detail")))
    IN  IF detail_elem # 0 THEN ChildData(detail_elem) ELSE <<>>

\* the elements the biography loop visits
DetailElems ==
    LET detail_elem == First(findall_named(Top, S("detail")))
    IN  IF detail_elem # 0 THEN findall_descendant(detail_elem) ELSE <<>>

\* parse_items: one iteration of its loop, or its end and the start of the
\* biography's collection
ParseItems ==
    /\ pc = "parse_items"
    /\ IF todo = <<>>
       THEN /\ pc' = "biography"
            /\ todo' = DetailElems
            /\ unconverted_data' = <<>>
            /\ json_data' = json_data
       ELSE /\ json_data' = AppendItem(json_data, Head(todo))
            /\ todo' = Tail(todo)
            /\ pc' = pc
            /\ unconverted_data' = unconverted_data
    /\ UNCHANGED <<xml_string, root, level_num,
                   result, log, history, argv, output_file, exit_status>>

\* the condition under which the biography loop passes an element by
Skipped(data_elem) ==
    LET name == ElemGet(data_elem, "name", None)
    IN  \/ ~Truthy(name)
        \/ name \in skip_names
        \/ ~Truthy(root[data_elem].text)

\* f"{name}: {data_elem.text.strip()}"
BiographyLine(data_elem) ==
    ElemGet(data_elem, "name", None) \o <<":", " ">> \o strip(root[data_elem].text)

\* what one iteration of the biography loop makes of unconverted_data
BiographyStep(lines, data_elem) ==
    IF Skipped(data_elem) THEN lines ELSE Append(lines, BiographyLine(data_elem))

\* the biography loop: one iteration, or its end
CollectBiography ==
    /\ pc = "biography"
    /\ IF todo = <<>>
       THEN /\ pc' = "join"
            /\ UNCHANGED <<todo, unconverted_data>>
       ELSE /\ unconverted_data' = BiographyStep(unconverted_data, Head(todo))
            /\ todo' = Tail(todo)
            /\ pc' = pc
    /\ UNCHANGED <<xml_string, root, json_data, level_num,
                   result, log, history, argv, output_file, exit_status>>

\* if unconverted_data: biography = "\n".join(unconverted_data)
JoinBiography ==
    /\ pc = "join"
    /\ json_data' = IF unconverted_data # <<>>
                    THEN [json_data EXCEPT !.system.details.biography.value =
                             join(<<"\n">>, unconverted_data)]
                    ELSE json_data
    /\ pc' = "return"
    /\ UNCHANGED <<xml_string, root, todo, level_num, unconverted_data,
                   result, log, history, argv, output_file, exit_status>>

\* return json_data: the call ends and its local names with it
Return ==
    /\ pc = "return"
    /\ result' = json_data
    /\ pc' = "returned"
    /\ root' = <<>>
    /\ json_data' = NoRecord
    /\ todo' = <<>>
    /\ level_num' = 0
    /\ unconverted_data' = <<>>
    /\ UNCHANGED <<xml_string, log, history, argv, output_file, exit_status>>

\* except etree.XMLSyntaxError: logger.error(...); return None.  (No
\* statement of the try block raises anything else, so the handler of
\* Exception after it is never entered.)
HandleXMLSyntaxError ==
    /\ pc = "except_XMLSyntaxError"
    /\ log' = Append(log, [level |-> "ERROR", by |-> "xml_to_fvtt_json",
                            msg |-> "XML syntax error"])
    /\ result' = NoRecord
    /\ pc' = "returned"
    /\ UNCHANGED <<xml_string, root, json_data, todo, level_num, unconverted_data,
                   history, argv, output_file, exit_status>>

Convert ==
    \/ ParseMarkup
    \/ InitRecord
    \/ MapName
    \/ ParseAbilities
    \/ MapHitPoints
    \/ MapHitDice
    \/ MapAlignment
    \/ MapRace
    \/ MapSpells
    \/ ParseTraits
    \/ ParseItems
    \/ CollectBiography
    \/ JoinBiography
    \/ Return
    \/ HandleXMLSyntaxError

---------------------------------------------------------------------------
(* The documents the conversion is run on *)

\* the most elements a document has
MaxNodes == 4

\* the most end tags cut off a document's end to make it malformed
MaxUnclosed == 1

\* the most calls of xml_to_fvtt_json one process makes
MaxCalls == 3

\* a str of one atom per character
T15 == <<"1", "5">>
T10 == <<"1", "0">>
T7 == <<"7">>
Tpad7 == <<" ", "7", " ">>
Tabc == <<"a", "b", "c">>
Tblank == <<" ", "\n">>
TX == <<"X">>
TpadY == <<"\n", "Y", " ">>

Bracketed(word) == <<"U+3010", word, "U+3011">>

\* <data name="..."> with its text and, when cv is not None, currentValue
Data(name, text, cv) ==
    [tag |-> "data",
     attrib |-> IF cv = None THEN [name |-> name]
                ELSE [name |-> name, currentValue |-> cv],
     text |-> text]

\* <data> with no attribute
Anonymous(text) == [tag |-> "data", attrib |-> <<>>, text |-> text]

\* an element of another tag
Other(tag, name, text) == [tag |-> tag, attrib |-> [name |-> name], text |-> text]

\* the depths of n elements in document order: the root at 0, each later
\* element at most one deeper than the one before it
Shapes(n) ==
    {d \in [1..n -> 0..(n - 1)] :
        /\ d[1] = 0
        /\ \A i \in 2..n : d[i] >= 1 /\ d[i] <= d[i - 1] + 1}

Closes(k) == [j \in 1..k |-> Close]

\* the markup of the elements elems at the depths d
RECURSIVE Serialize(_, _, _)
Serialize(elems, d, i) ==
    IF i > Len(elems) THEN <<>>
    ELSE <<Open(elems[i].tag, elems[i].attrib, elems[i].text)>>
         \o Closes(IF i = Len(elems) THEN d[i] + 1 ELSE d[i] - d[i + 1] + 1)
         \o Serialize(elems, d, i + 1)

\* the well-formed documents of n elements: a root of RootKinds, the others
\* of Kinds
DocsOfSize(RootKinds, Kinds, n) ==
    {Serialize([i \in 1..n |-> IF i = 1 THEN r ELSE k[i]], d, 1) :
        r \in RootKinds, k \in [2..n -> Kinds], d \in Shapes(n)}

Docs(RootKinds, Kinds) ==
    UNION {DocsOfSize(RootKinds, Kinds, n) : n \in 1..MaxNodes}

\* a document with its last end tags missing
Unclosed(docs) ==
    {SubSeq(doc, 1, Len(doc) - k) : doc \in docs, k \in 1..MaxUnclosed}

CharacterRoot == Other("character", S("sheet"), <<>>)

AbilityKinds ==
    {Data(S("nouryokuchi"), <<>>, None),
     Data(Bracketed("kinryoku"), T15, None),
     Data(S("kinryoku"), Tabc, None),
     Data(Bracketed("binshouryoku"), <<>>, None),
     Data(S("luck"), Tpad7, None)}

CounterKinds ==
    {Data(S("koudou_data"), <<>>, None),
     Data(S("hit_point"), T10, T7),
     Data(LevelName(2), <<>>, None),
     Data(S("slot"), Tpad7, Tabc),
     Data(S("slot"), <<>>, None)}

ItemKinds ==
    {Data(S("aitemu"), <<>>, None),
     Data(S("sword"), TX, None),
     Data(S("rope"), TpadY, None),
     Anonymous(<<>>),
     Other("note", S("sword"), TX)}

BiographyKinds ==
    {Data(S("detail"), Tblank, None),
     Data(S("Foo"), TX, None),
     Data(S("nouryokuchi"), Tblank, None),
     Data(Bracketed("kinryoku"), Tpad7, None),
     Anonymous(TX)}

SheetKinds ==
    {Data(S("nouryokuchi"), <<>>, None),
     Data(Bracketed("chiryoku"), T15, None),
     Data(LevelName(9), <<>>, None),
     Data(S("slot"), T10, T7),
     Data(S("hit_dice"), TX, None)}

\* a process that has bound no name and logged nothing yet
Fresh ==
    /\ root = <<>>
    /\ json_data = NoRecord
    /\ todo = <<>>
    /\ level_num = 0
    /\ unconverted_data = <<>>
    /\ result = NoRecord
    /\ log = <<>>
    /\ history = <<>>
    /\ output_file = NoRecord
    /\ exit_status = Running

\* the state before xml_to_fvtt_json is called with one of docs, or with one
\* of them cut short
Called(docs) ==
    /\ xml_string \in docs \cup Unclosed(docs)
    /\ pc = "call"
    /\ Fresh
    /\ argv = [suffix |-> <<>>, exists |-> FALSE, content |-> <<>>]

Init == Called(Docs({CharacterRoot}, SheetKinds))

Next == Convert

Spec == Init /\ [][Next]_vars

InitAbilities ==
    Called(Docs({CharacterRoot, Data(S("nouryokuchi"), <<>>, None)}, AbilityKinds))

SpecAbilities == InitAbilities /\ [][Next]_vars

InitCounters ==
    Called(Docs({CharacterRoot, Data(S("koudou_data"), <<>>, None)}, CounterKinds))

SpecCounters == InitCounters /\ [][Next]_vars

InitItems ==
    Called(Docs({CharacterRoot, Data(S("aitemu"), <<>>, None)}, ItemKinds))

SpecItems == InitItems /\ [][Next]_vars

InitBiography ==
    Called(Docs({CharacterRoot, Data(S("detail"), Tblank, None)}, BiographyKinds))

SpecBiography == InitBiography /\ [][Next]_vars

---------------------------------------------------------------------------
(* The callers: a program that calls xml_to_fvtt_json again and again, and  *)
(* the script's own "__main__" part                                         *)

\* the documents a process converts one after another
CallPool ==
    {Serialize(<<CharacterRoot>>, <<0>>, 1),
     Serialize(<<CharacterRoot, Data(S("aitemu"), <<>>, None), Data(S("sword"), TX, None)>>,
               <<0, 1, 2>>, 1),
     Serialize(<<CharacterRoot, Data(S("aitemu"), <<>>, None), Data(S("rope"), TpadY, None)>>,
               <<0, 1, 2>>, 1),
     Serialize(<<CharacterRoot, Data(S("tokuchou_tou"), <<>>, None), Data(S("yowami"), TX, None)>>,
               <<0, 1, 2>>, 1),
     Serialize(<<CharacterRoot, Data(S("detail"), <<>>, None), Data(S("Foo"), TX, None),
                 Data(Bracketed("kinryoku"), T15, None)>>,
               <<0, 1, 2, 2>>, 1),
     <<Open("character", [name |-> S("sheet")], <<>>)>>}

InitCalls ==
    /\ xml_string \in CallPool
    /\ pc = "call"
    /\ Fresh
    /\ argv = [suffix |-> <<>>, exists |-> FALSE, content |-> <<>>]

\* the caller keeps what the call returned and calls again
CallAgain ==
    /\ pc = "returned"
    /\ Len(history) + 1 < MaxCalls
    /\ history' = Append(history, [input |-> xml_string, output |-> result])
    /\ xml_string' \in CallPool
    /\ pc' = "call"
    /\ UNCHANGED <<root, json_data, todo, level_num, unconverted_data,
                   result, log, argv, output_file, exit_status>>

NextCalls == Convert \/ CallAgain

SpecCalls == InitCalls /\ [][NextCalls]_vars

Upper == <<"A", "B", "C", "D", "E", "F", "G", "H", "I", "J", "K", "L", "M",
           "N", "O", "P", "Q", "R", "S", "T", "U", "V", "W", "X", "Y", "Z">>

Lower == <<"a", "b", "c", "d", "e", "f", "g", "h", "i", "j", "k", "l", "m",
           "n", "o", "p", "q", "r", "s", "t", "u", "v", "w", "x", "y", "z">>

\* str.lower()
lower(s) ==
    [i \in DOMAIN s |->
        IF \E j \in DOMAIN Upper : Upper[j] = s[i]
        THEN Lower[CHOOSE j \in DOMAIN Upper : Upper[j] = s[i]]
        ELSE s[i]]

\* the suffixes of the input file's name, and the file's content when it
\* exists
Suffixes == {<<".", "x", "m", "l">>, <<".", "X", "M", "L">>, <<".", "t", "x", "t">>, <<>>}

InitMain ==
    /\ xml_string = <<>>
    /\ pc = "main"
    /\ Fresh
    /\ \E suffix \in Suffixes, exists \in BOOLEAN :
           \E content \in IF exists THEN CallPool ELSE {<<>>} :
               argv = [suffix |-> suffix, exists |-> exists, content |-> content]

\* if ext.lower() != ".xml": logger.error(...); sys.exit(1)
MainCheckSuffix ==
    /\ pc = "main"
    /\ IF lower(argv.suffix) # <<".", "x", "m", "l">>
       THEN /\ log' = Append(log, [level |-> "ERROR", by |-> "__main__",
                                    msg |-> "the input file must be XML"])
            /\ exit_status' = 1
            /\ pc' = "exited"
       ELSE /\ pc' = "open"
            /\ UNCHANGED <<log, exit_status>>
    /\ UNCHANGED <<xml_string, root, json_data, todo, level_num, unconverted_data,
                   result, history, argv, output_file>>

\* xml_data = f.read(), or FileNotFoundError: logger.error(...); sys.exit(1)
MainRead ==
    /\ pc = "open"
    /\ IF ~argv.exists
       THEN /\ log' = Append(log, [level |-> "ERROR", by |-> "__main__",
                                    msg |-> "file not found"])
            /\ exit_status' = 1
            /\ pc' = "exited"
            /\ xml_string' = xml_string
       ELSE /\ xml_string' = argv.content
            /\ pc' = "call"
            /\ UNCHANGED <<log, exit_status>>
    /\ UNCHANGED <<root, json_data, todo, level_num, unconverted_data,
                   result, history, argv, output_file>>

\* "if converted_json" of a dict or None
TruthyRecord(r) == r # NoRecord /\ DOMAIN r # {}

\* the statements after the call: the file is written and the script ends,
\* or the error is logged and the script ends
MainFinish ==
    /\ pc = "returned"
    /\ IF TruthyRecord(result)
       THEN /\ output_file' = result
            /\ log' = Append(log, [level |-> "INFO", by |-> "__main__",
                                    msg |-> "converted"])
       ELSE /\ output_file' = output_file
            /\ log' = Append(log, [level |-> "ERROR", by |-> "__main__",
                                    msg |-> "the conversion failed"])
    /\ exit_status' = 0
    /\ pc' = "exited"
    /\ UNCHANGED <<xml_string, root, json_data, todo, level_num, unconverted_data,
                   result, history, argv>>

NextMain == Convert \/ MainCheckSuffix \/ MainRead \/ MainFinish

SpecMain == InitMain /\ [][NextMain]_vars

---------------------------------------------------------------------------
(* What the properties below say of a document and of a record, in terms of *)
(* the markup and of the tree alone                                         *)

CountOf(toks, kind, n) == Cardinality({i \in 1..n : toks[i].kind = kind})

\* well-formed markup: every element closed, one root element
WellFormedMarkup(toks) ==
    /\ toks # <<>>
    /\ CountOf(toks, "open", Len(toks)) = CountOf(toks, "close", Len(toks))
    /\ \A n \in 1..(Len(toks) - 1) : CountOf(toks, "open", n) > CountOf(toks, "close", n)

\* the name attributes of the markup's elements
MarkupNames(toks) ==
    {toks[i].attrib.name : i \in {j \in DOMAIN toks :
        toks[j].kind = "open" /\ "name" \in DOMAIN toks[j].attrib}}

Unbracketed(name) == SelectSeq(name, LAMBDA c : c \notin {"U+3010", "U+3011"})

LabelOf ==
    [str |-> S("kinryoku"), dex |-> S("binshouryoku"), con |-> S("taikyuuryoku"),
     int |-> S("chiryoku"), wis |-> S("handanryoku"), cha |-> S("miryoku")]

SixAbilityKeys == {"str", "dex", "con", "int", "wis", "cha"}

NineSpellKeys ==
    {"spell1", "spell2", "spell3", "spell4", "spell5", "spell6", "spell7", "spell8", "spell9"}

LevelOf ==
    [spell1 |-> "1", spell2 |-> "2", spell3 |-> "3", spell4 |-> "4", spell5 |-> "5",
     spell6 |-> "6", spell7 |-> "7", spell8 |-> "8", spell9 |-> "9"]

HasAllKeys(r) ==
    /\ DOMAIN r.system.abilities = SixAbilityKeys
    /\ DOMAIN r.system.spells = NineSpellKeys

\* the keys whose node the markup lacks hold their zero default
HasDefaults(r, toks) ==
    /\ \A key \in SixAbilityKeys :
           (\A name \in MarkupNames(toks) : Unbracketed(name) # LabelOf[key])
               => r.system.abilities[key] = [value |-> 0]
    /\ \A key \in NineSpellKeys :
           (<<"LV", LevelOf[key]>> \notin MarkupNames(toks) \/ S("slot") \notin MarkupNames(toks))
               => r.system.spells[key] = [value |-> 0, max |-> 0]

\* the integer the specification gives for a text or an attribute value of
\* the documents drawn
ClaimedInt ==
    (None :> 0) @@ (T15 :> 15) @@ (T10 :> 10) @@ (T7 :> 7) @@ (Tpad7 :> 7) @@
    (Tabc :> 0) @@ (Tblank :> 0) @@ (TX :> 0) @@ (TpadY :> 0)

\* the trimmed text the specification gives for a text of the documents drawn
ClaimedTrim ==
    (None :> <<>>) @@ (T15 :> T15) @@ (T10 :> T10) @@ (T7 :> T7) @@ (Tpad7 :> T7) @@
    (Tabc :> Tabc) @@ (Tblank :> <<>>) @@ (TX :> TX) @@ (TpadY :> <<"Y">>)

NameOf(n) == IF "name" \in DOMAIN root[n].attrib THEN root[n].attrib.name ELSE None

IsDataNamed(n, name) == root[n].tag = "data" /\ NameOf(n) = name

\* n is a data child of a data element named outer; that element may be the
\* document's root element only when withRoot
DataChildOf(n, outer, withRoot) ==
    /\ root[n].tag = "data"
    /\ root[n].parent # 0
    /\ IsDataNamed(root[n].parent, outer)
    /\ withRoot \/ root[n].parent # 1

\* the first data element of that name in document order, 0 when there is none
FirstNamed(name, withRoot) ==
    LET found == {n \in DOMAIN root : IsDataNamed(n, name) /\ (withRoot \/ n # 1)}
    IN  IF found = {} THEN 0 ELSE CHOOSE n \in found : \A m \in found : n <= m

\* the i-th element of a set of elements in document order
Nth(set, i) == CHOOSE n \in set : Cardinality({m \in set : m < n}) = i - 1

---------------------------------------------------------------------------
(* Properties *)

\* C1: A well-formed document always gives a record, never a failure, and the
\* record, from its initialisation on and after every mapping step, has
\* exactly the six ability keys and the nine spell keys, each at its zero
\* default when the document has no node for it.
C1_AllKeysAlwaysPresent ==
    /\ json_data # NoRecord => HasAllKeys(json_data) /\ HasDefaults(json_data, xml_string)
    /\ pc = "returned" /\ WellFormedMarkup(xml_string) =>
           /\ result # NoRecord
           /\ HasAllKeys(result)
           /\ HasDefaults(result, xml_string)

\* a record returned for a document with one ability node and no slot node
C1_Witness ==
    /\ pc = "returned"
    /\ WellFormedMarkup(xml_string)
    /\ result # NoRecord
    /\ result.system.abilities["int"].value = 15
    /\ result.system.abilities["str"].value = 0
    /\ S("slot") \notin MarkupNames(xml_string)
    /\ result.system.spells["spell9"] = [value |-> 0, max |-> 0]

\* C2: Markup that is not well-formed gives the failure outcome and no
\* record: the call ends in the XMLSyntaxError handler, no record is ever
\* built, and what it returns is None.
C2_MalformedGivesNoRecord ==
    ~WellFormedMarkup(xml_string) =>
        /\ pc \in {"call", "except_XMLSyntaxError", "returned"}
        /\ json_data = NoRecord
        /\ pc = "returned" => result = NoRecord

\* the call has returned None for markup with an element left open
C2_Witness ==
    /\ pc = "returned"
    /\ ~WellFormedMarkup(xml_string)
    /\ xml_string # <<>>
    /\ result = NoRecord
    /\ log = <<[level |-> "ERROR", by |-> "xml_to_fvtt_json", msg |-> "XML syntax error"]>>

\* the data children of the ability containers whose label, brackets off,
\* is the label of key
AbilityNodes(key, withRoot) ==
    {n \in DOMAIN root :
        /\ DataChildOf(n, S("nouryokuchi"), withRoot)
        /\ NameOf(n) # None
        /\ Unbracketed(NameOf(n)) = LabelOf[key]}

AbilitiesAsClaimed(withRoot) ==
    pc = "return" =>
        \A key \in SixAbilityKeys :
            IF AbilityNodes(key, withRoot) = {}
            THEN json_data.system.abilities[key].value = 0
            ELSE \E n \in AbilityNodes(key, withRoot) :
                     json_data.system.abilities[key].value = ClaimedInt[root[n].text]

\* C3 as stated: every data child of a container named nouryokuchi whose
\* label, brackets off, is in the table gives its ability key the integer of
\* its text (0 for text that is no number or is missing); a key no such child
\* names keeps its value.
C3_AbilitiesOfAnyContainer == AbilitiesAsClaimed(TRUE)

\* C3 as amended: the same, for the containers below the document's root
\* element; the root element itself is never taken as a container.
C3_AbilitiesBelowRoot == AbilitiesAsClaimed(FALSE)

\* a bracketed label mapped to its key with a node of unknown label beside it
C3_Witness ==
    /\ pc = "return"
    /\ root[1].tag = "character"
    /\ json_data.system.abilities["str"].value = 15
    /\ json_data.system.abilities["cha"].value = 0
    /\ \E n \in DOMAIN root :
           NameOf(n) = S("luck") /\ DataChildOf(n, S("nouryokuchi"), FALSE)

\* the inner elements that are data children of a data element named outer
CounterNodes(outer, inner, withRoot) ==
    {n \in DOMAIN root : DataChildOf(n, outer, withRoot) /\ IsDataNamed(n, inner)}

ClaimedCounter(n) ==
    [value |-> ClaimedInt[IF "currentValue" \in DOMAIN root[n].attrib
                          THEN root[n].attrib.currentValue ELSE None],
     max |-> ClaimedInt[root[n].text]]

CounterAsClaimed(pair, nodes) ==
    IF nodes = {} THEN pair = [value |-> 0, max |-> 0]
    ELSE \E n \in nodes : pair = ClaimedCounter(n)

CountersAsClaimed(withRoot) ==
    pc = "return" =>
        /\ CounterAsClaimed(json_data.system.attributes.hp,
                            CounterNodes(S("koudou_data"), S("hit_point"), withRoot))
        /\ \A key \in NineSpellKeys :
               CounterAsClaimed(json_data.system.spells[key],
                                CounterNodes(<<"LV", LevelOf[key]>>, S("slot"), withRoot))

\* C4 as stated: the hit point node under koudou_data and, for each level,
\* the slot node under LV<level> give the pair {value: integer of
\* currentValue, max: integer of the text}, each number 0 when absent or no
\* number, and the pair is {0, 0} when there is no such node.
C4_CountersOfAnyContainer == CountersAsClaimed(TRUE)

\* C4 as amended: the same, for the containers below the document's root
\* element.
C4_CountersBelowRoot == CountersAsClaimed(FALSE)

\* currentValue="7" with text "10" has given {value: 7, max: 10}
C4_Witness ==
    /\ pc = "return"
    /\ root[1].tag = "character"
    /\ json_data.system.attributes.hp = [value |-> 7, max |-> 10]

\* the data children of an element
DataChildren(container) ==
    {n \in DOMAIN root : root[n].tag = "data" /\ root[n].parent = container}

Verbatim(text) == IF text = None THEN <<>> ELSE text

ClaimedItem(n, description) ==
    [name |-> NameOf(n), type |-> "item",
     system |-> [description |-> [value |-> description]]]

\* C5 as stated: one item record per data child of the container named
\* aitemu, in document order, with the child's name, the type "item" and the
\* child's text, verbatim, as description; no record when there is no
\* container.
C5_ItemsVerbatim ==
    pc = "return" =>
        LET container == FirstNamed(S("aitemu"), TRUE)
            children == IF container = 0 THEN {} ELSE DataChildren(container)
        IN  /\ Len(json_data.items) = Cardinality(children)
            /\ \A i \in DOMAIN json_data.items :
                   json_data.items[i] =
                       ClaimedItem(Nth(children, i), Verbatim(root[Nth(children, i)].text))

\* C5 as amended: the container is the first data element named aitemu
\* below the document's root element, and the description is the child's
\* text with the white space at its ends taken off (empty when the child has
\* no text).
C5_ItemsTrimmed ==
    pc = "return" =>
        LET container == FirstNamed(S("aitemu"), FALSE)
            children == IF container = 0 THEN {} ELSE DataChildren(container)
        IN  /\ Len(json_data.items) = Cardinality(children)
            /\ \A i \in DOMAIN json_data.items :
                   json_data.items[i] =
                       ClaimedItem(Nth(children, i), ClaimedTrim[root[Nth(children, i)].text])

\* two children have given two records, in their order
C5_Witness ==
    /\ pc = "return"
    /\ Len(json_data.items) = 2
    /\ json_data.items[1] = ClaimedItem(3, TX)
    /\ json_data.items[1].name = S("sword")
    /\ json_data.items[2].name = S("rope")
    /\ json_data.items[2].system.description.value = <<"Y">>

\* text that is absent, empty or white space only
NoText(text) == text = None \/ \A i \in DOMAIN text : text[i] \in Whitespace

\* the data elements under detail that have a name outside the skip set
Candidates(detail) ==
    {n \in DOMAIN root :
        /\ detail # 0
        /\ IsAncestor(detail, n)
        /\ root[n].tag = "data"
        /\ NameOf(n) \notin {None, <<>>}
        /\ NameOf(n) \notin skip_names}

\* those of them with text, which the specification has contribute a line
Contributors(detail) == {n \in Candidates(detail) : ~NoText(root[n].text)}

\* those of them whose text is white space and nothing else: whether such an
\* element gives a line is what C8 is about, and C6 is stated for either
\* answer
BlankContributors(detail) ==
    {n \in Candidates(detail) : root[n].text # None /\ NoText(root[n].text)}

ClaimedLine(n) == NameOf(n) \o <<":", " ">> \o ClaimedTrim[root[n].text]

BiographyAsClaimed(withRoot) ==
    pc = "return" =>
        LET detail == FirstNamed(S("detail"), withRoot)
        IN  \E blank \in SUBSET BlankContributors(detail) :
                LET nodes == Contributors(detail) \cup blank
                IN  json_data.system.details.biography.value =
                        join(<<"\n">>, [i \in 1..Cardinality(nodes) |->
                                            ClaimedLine(Nth(nodes, i))])

\* C6 as stated: every data element under the element named detail that has
\* a name outside the skip set and has text gives the line "name: text"; the
\* lines are in document order with one newline between them and there is no
\* other line; the biography is empty when there is no such element or no
\* detail element.
C6_BiographyOfAnyDetail == BiographyAsClaimed(TRUE)

\* C6 as amended: the same, under the first data element named detail below
\* the document's root element; the text of a line is the element's text
\* with the white space at its ends taken off.
C6_BiographyBelowRoot == BiographyAsClaimed(FALSE)

\* two elements under detail have given two lines, in their order
C6_Witness ==
    /\ pc = "return"
    /\ json_data.system.details.biography.value =
           <<"Foo", ":", " ", "X", "\n", "U+3010", "kinryoku", "U+3011", ":", " ", "7">>

\* the elements whose content one of the mapping steps before the biography
\* copies into the record
MappedElems ==
    ({First(findall_nested(Top, S("character"), S("name"))),
      First(findall_nested(Top, S("koudou_data"), S("hit_point"))),
      First(findall_named(Top, S("hit_dice"))),
      First(findall_named(Top, S("zokusei"))),
      First(findall_named(Top, S("shuzoku")))}
     \cup {First(findall_nested(Top, LevelName(level), S("slot"))) : level \in 1..9}
     \cup {e \in DOMAIN root :
              /\ \E i \in DOMAIN findall_in(Top, S("nouryokuchi")) :
                     findall_in(Top, S("nouryokuchi"))[i] = e
              /\ NameOf(e) # None
              /\ Unbracketed(NameOf(e)) \in DOMAIN ability_mapping}
     \cup {e \in DOMAIN root :
              /\ \E i \in DOMAIN TraitElems : TraitElems[i] = e
              /\ NameOf(e) \in DOMAIN traits_mapping}
     \cup {e \in DOMAIN root : \E i \in DOMAIN ItemElems : ItemElems[i] = e})
    \ {0}

\* C7: No element that a mapping step has copied into the record also gives
\* a line of the biography: the loop passes every such element by.
C7_MappedElementsGiveNoLine ==
    [][(pc = "biography" /\ todo # <<>> /\ Head(todo) \in MappedElems)
           => unconverted_data' = unconverted_data]_vars

\* C8: An element under detail with no name, or with no text (absent, empty
\* or white space only), gives no line of the biography.
C8_BlankElementsGiveNoLine ==
    [][(pc = "biography" /\ todo # <<>>
            /\ (NameOf(Head(todo)) \in {None, <<>>} \/ NoText(root[Head(todo)].text)))
           => unconverted_data' = unconverted_data]_vars

\* C9: Converting the same markup again, straight away or after other
\* conversions, returns what it returned before.
C9_SameInputSameOutput ==
    /\ \A i, j \in DOMAIN history :
           history[i].input = history[j].input => history[i].output = history[j].output
    /\ pc = "returned" =>
           \A i \in DOMAIN history :
               history[i].input = xml_string => history[i].output = result

\* a document with an item converted, another one converted, the first one
\* converted again
C9_Witness ==
    /\ pc = "returned"
    /\ Len(history) = 2
    /\ history[1].input = xml_string
    /\ history[2].input # xml_string
    /\ history[2].output # NoRecord
    /\ history[2].output.items # <<>>
    /\ result # NoRecord
    /\ result.items # <<>>
    /\ result = history[1].output

\* the call of xml_to_fvtt_json has failed
ConversionFailed == \E i \in DOMAIN log : log[i].by = "xml_to_fvtt_json"

\* C10: When the conversion fails the script reports it, writes no output
\* file and ends with a non-zero exit status.
C10_FailureExitsNonZero ==
    pc = "exited" /\ ConversionFailed =>
        /\ log[Len(log)] = [level |-> "ERROR", by |-> "__main__",
                             msg |-> "the conversion failed"]
        /\ output_file = NoRecord
        /\ exit_status # 0

====
